---- MODULE Spec2Model ----
(***************************************************************************)
(* Model of the PortOne webhook route (POST, handlePaidScenario,           *)
(* handleCancelledScenario) together with the `payment` ledger table and   *)
(* the gateway's schedule registry it talks to.                            *)
(*                                                                         *)
(* Every delivery is one process.  A process takes one step per awaited    *)
(* I/O call: the step is the effect of that call at the ledger or at the   *)
(* gateway, followed by the synchronous code that runs until the next      *)
(* await.  Time is counted in seconds since the epoch.                     *)
(***************************************************************************)
EXTENDS Integers, Sequences, FiniteSets, TLC

VARIABLES
    scope,      \* which bounded set of runs is explored: "wide", "deep", "dates"
    tz,         \* UTC offset (seconds) of the time zone the server runs in
    clock,      \* wall clock (epoch seconds), never goes back
    uuidCtr,    \* number of identifiers minted by randomUUID so far
    ledger,     \* rows of table `payment`, in order of creation (created_at)
    schedules,  \* schedules registered at the gateway
    pc,         \* per delivery: the await the handler is suspended at
    req,        \* per delivery: the parsed webhook payload
    loc,        \* per delivery: the handler's local variables
    calls,      \* per delivery: the I/O calls completed so far, in order
    resp,       \* per delivery: the HTTP response
    pre,        \* per delivery: the deliveries answered before it arrived
    hook,       \* state of usePaymentStatus in the browser
    cancel      \* state of handleCancelSubscription in the browser

vars == <<scope, tz, clock, uuidCtr, ledger, schedules, pc, req, loc, calls, resp, pre, hook, cancel>>

-----------------------------------------------------------------------------
(* Bounds *)

\* "wide" runs: few deliveries, every kind of payload and gateway answer.
WideDeliveries == 2

\* "deep" runs: more deliveries, all for one payment on a server in UTC.
DeepDeliveries == 3

\* "dates" runs: a Paid delivery and Cancelled ones for one payment, every
\* random minute, many clock readings and time zones.
DatesDeliveries == 2

\* "client" runs: Paid and Cancelled deliveries for two payments on a server
\* in UTC, next to a browser that fetches the subscription status.
ClientDeliveries == 2

\* "cancel" runs: a Paid and then a Cancelled delivery for one payment, next
\* to a browser that fetches the status and cancels the subscription.
CancelDeliveries == 2

Max(a, b) == IF a > b THEN a ELSE b

Procs == 1..Max(Max(WideDeliveries, Max(ClientDeliveries, CancelDeliveries)),
                Max(DeepDeliveries, DatesDeliveries))

Deliveries ==
    CASE scope = "wide"  -> WideDeliveries
      [] scope = "deep"  -> DeepDeliveries
      [] scope = "dates" -> DatesDeliveries
      [] scope = "client" -> ClientDeliveries
      [] scope = "cancel" -> CancelDeliveries

-----------------------------------------------------------------------------
(* Values *)

Absent == "absent"            \* undefined / missing field (falsy)

Keys == {"pay_1", "pay_2"}

Statuses == {"Paid", "Cancelled", "Ready"}

BadJson == [payment_id |-> Absent, status |-> "unparsable"]

\* Bodies a delivery can carry: well-formed payloads, a payload without
\* payment_id, and a body that is not JSON.
Bodies ==
    [payment_id : Keys, status : Statuses]
    \cup {[payment_id |-> Absent, status |-> "Paid"],
          [payment_id |-> Absent, status |-> "Cancelled"]}
    \cup {BadJson}

\* Bodies the p-th delivery can carry in the current scope.  In the "dates"
\* runs a Paid event is followed by Cancelled events for the same payment.
ScopeBodies(p) ==
    CASE scope = "wide"  -> Bodies
      [] scope = "deep"  -> {b \in Bodies : b.payment_id = "pay_1"}
      [] scope \in {"dates", "cancel"} ->
                            {b \in Bodies :
                                /\ b.payment_id = "pay_1"
                                /\ b.status = IF p = 1 THEN "Paid" ELSE "Cancelled"}
      [] scope = "client" -> {b \in Bodies :
                                /\ b.payment_id \in Keys
                                /\ b.status \in {"Paid", "Cancelled"}}

Day == 24 * 3600

\* Offsets of the zones the server may run in: UTC and KST.
TzOffsets == {0, 9 * 3600}

\* More zones: UTC-11, UTC-5, UTC, UTC+5:30, UTC+9, UTC+14.
AllTzOffsets ==
    {0 - 11 * 3600, 0 - 5 * 3600, 0, 5 * 3600 + 30 * 60, 9 * 3600, 14 * 3600}

\* Instants at which a handler may read the clock.
Instants ==
    { 1 * Day,
      1 * Day + 20 * 3600 + 15 * 60 + 42 }

AllInstants ==
    Instants \cup
    { 1 * Day + 9 * 3600 + 59 * 60 + 59,
      1 * Day + 10 * 3600 + 30 * 60 + 15,
      1 * Day + 23 * 3600 + 59 * 60 + 59 }

ScopeInstants == IF scope = "dates" THEN AllInstants ELSE Instants

\* Values of Math.floor(Math.random() * 60).
AllMinutes == 0..59

\* The values explored outside the "dates" runs.
RandomMinutes == {0, 59}

ScopeMinutes ==
    CASE scope = "wide"  -> RandomMinutes
      [] scope = "deep"  -> {0}
      [] scope = "dates" -> AllMinutes
      [] scope \in {"client", "cancel"} -> {0}

-----------------------------------------------------------------------------
(* Date: an epoch instant; its local fields are those of instant + tz *)

\* Date.prototype.toISOString: the UTC fields of the instant.
ToISOString(t) ==
    [day  |-> t \div Day,
     hour |-> (t % Day) \div 3600,
     min  |-> (t % 3600) \div 60,
     sec  |-> t % 60]

\* new Date(isoString)
ParseDate(s) == s.day * Day + s.hour * 3600 + s.min * 60 + s.sec

NoDate == [day |-> 0 - 1, hour |-> 0, min |-> 0, sec |-> 0]

\* d.setDate(d.getDate() + n): n days later on the local calendar, same
\* local time of day.
AddDays(t, n) == ((t + tz) + n * Day) - tz

\* d.setHours(h, m, 0, 0): same local day, local time h:m:00.
SetHours(t, h, m) == ((t + tz) - ((t + tz) % Day)) + h * 3600 + m * 60 - tz

\* Variant: nextScheduleAt is not moved to the day after endAt.
ComputePeriodSameDay(now, minute) ==
    LET endAt          == AddDays(now, 30)
        endGraceAt     == AddDays(now, 31)
        nextScheduleAt == SetHours(endAt, 10, minute)
    IN  [start_at         |-> ToISOString(now),
         end_at           |-> ToISOString(endAt),
         end_grace_at     |-> ToISOString(endGraceAt),
         next_schedule_at |-> ToISOString(nextScheduleAt)]

\* The period of a Paid row: now, now + 30 days, now + 31 days, and the day
\* after endAt at 10:mm:00 local time.
ComputePeriod(now, minute) ==
    LET endAt          == AddDays(now, 30)
        endGraceAt     == AddDays(now, 31)
        nextScheduleAt == SetHours(AddDays(endAt, 1), 10, minute)
    IN  [start_at         |-> ToISOString(now),
         end_at           |-> ToISOString(endAt),
         end_grace_at     |-> ToISOString(endGraceAt),
         next_schedule_at |-> ToISOString(nextScheduleAt)]

-----------------------------------------------------------------------------
(* Records *)

NoRow ==
    [created_at |-> 0, by |-> 0, transaction_key |-> Absent, amount |-> 0,
     status |-> "none", start_at |-> NoDate, end_at |-> NoDate,
     end_grace_at |-> NoDate, next_schedule_at |-> NoDate,
     next_schedule_id |-> 0]

NoPayment ==
    [id |-> Absent, paymentId |-> Absent, amount |-> 0, orderName |-> Absent,
     billingKey |-> Absent, customer |-> Absent]

NoSchedule == [id |-> 0, paymentId |-> 0, billingKey |-> Absent, timeToPay |-> NoDate]

NoCreate ==
    [paymentId |-> 0, billingKey |-> Absent, orderName |-> Absent,
     customer |-> Absent, amount |-> 0, currency |-> Absent, timeToPay |-> NoDate]

NoFilter == [billingKey |-> Absent, from |-> NoDate, until |-> NoDate]

\* A handler's locals.  Kept for stating properties: `now`, `selectRows` (the
\* number of rows in the table when the select ran), the requests sent to the
\* gateway (`created`, `filter`, `scheduleIds`), the items the schedule query
\* returned and the schedules the cancel call removed.
NoLocals ==
    [paymentData |-> NoPayment, record |-> NoRow, existingPayment |-> NoRow,
     inserted |-> NoRow, targetSchedule |-> NoSchedule, now |-> 0,
     selectRows |-> 0, created |-> NoCreate, filter |-> NoFilter,
     items |-> {}, scheduleIds |-> {}, removed |-> {}]

NoResponse == [success |-> FALSE, http |-> 0, error |-> "none", payment |-> NoRow]

\* NextResponse.json({success: true, ..., payment})
Success(row) == [success |-> TRUE, http |-> 200, error |-> "none", payment |-> row]

\* Variant: the catch answers as if the event had been handled.
FailureAnswered200(msg) ==
    [success |-> TRUE, http |-> 200, error |-> msg, payment |-> NoRow]

\* The catch of POST: {success: false, error: message}, status 500.
Failure(msg) == [success |-> FALSE, http |-> 500, error |-> msg, payment |-> NoRow]

AmountOf(k) == IF k = "pay_1" THEN 9900 ELSE 4900

OtherKey(k) == IF k = "pay_1" THEN "pay_2" ELSE "pay_1"

\* Payment details GET /payments/{k} may answer with.  The gateway names the
\* payment in `id`, in `paymentId`, in both or in neither.
PaymentDetails(k) ==
    { [id |-> i, paymentId |-> pid, amount |-> AmountOf(k), orderName |-> "plan",
       billingKey |-> bk, customer |-> "cust_1"]
      : <<i, pid>> \in {<<k, Absent>>, <<OtherKey(k), Absent>>,
                        <<OtherKey(k), k>>, <<Absent, Absent>>},
        bk \in {Absent, "bk_1"} }

\* Details answered in the current scope.
ScopeDetails(k) ==
    IF scope = "wide" THEN PaymentDetails(k)
    ELSE {d \in PaymentDetails(k) : d.id = k /\ d.paymentId = Absent}

\* handlePaidScenario reads amount.total, orderName, billingKey and
\* customer.id of the detail and never its id or paymentId.
PaidView(d) == [d EXCEPT !.id = Absent, !.paymentId = Absent]

-----------------------------------------------------------------------------
(* Ledger (table `payment`) *)

\* insert(record).select().single(): the row gets its created_at (its place
\* in creation order) from the store; `by` remembers the inserting delivery.
InsertedRow(rows, record, p) ==
    [record EXCEPT !.created_at = Len(rows) + 1, !.by = p]

\* Variant: the identifier of the next charge is not minted per row.
PaidRecordFixedScheduleId(paymentId, paymentData, period, nextScheduleId) ==
    [NoRow EXCEPT
        !.transaction_key  = paymentId,
        !.amount           = paymentData.amount,
        !.status           = "Paid",
        !.start_at         = period.start_at,
        !.end_at           = period.end_at,
        !.end_grace_at     = period.end_grace_at,
        !.next_schedule_at = period.next_schedule_at,
        !.next_schedule_id = 1]

\* The row written by handlePaidScenario.
PaidRecord(paymentId, paymentData, period, nextScheduleId) ==
    [NoRow EXCEPT
        !.transaction_key  = paymentId,
        !.amount           = paymentData.amount,
        !.status           = "Paid",
        !.start_at         = period.start_at,
        !.end_at           = period.end_at,
        !.end_grace_at     = period.end_grace_at,
        !.next_schedule_at = period.next_schedule_at,
        !.next_schedule_id = nextScheduleId]

\* Variant: the detail's id is preferred to its paymentId.
ActualPaymentIdIdFirst(paymentData, paymentId) ==
    IF paymentData.id # Absent THEN paymentData.id
    ELSE IF paymentData.paymentId # Absent THEN paymentData.paymentId
    ELSE paymentId

\* paymentData.paymentId || paymentData.id || paymentId
ActualPaymentId(paymentData, paymentId) ==
    IF paymentData.paymentId # Absent THEN paymentData.paymentId
    ELSE IF paymentData.id # Absent THEN paymentData.id
    ELSE paymentId

\* Variant: a Paid row that a Cancel row reverses already is not found again.
SelectLatestUnreversedPaid(rows, key) ==
    LET hits == {i \in 1..Len(rows) :
                    /\ rows[i].transaction_key = key
                    /\ rows[i].status = "Paid"
                    /\ ~\E j \in 1..Len(rows) :
                           /\ rows[j].status = "Cancel"
                           /\ rows[j].next_schedule_id = rows[i].next_schedule_id}
    IN  IF hits = {} THEN NoRow
        ELSE rows[CHOOSE i \in hits : \A j \in hits : j <= i]

\* Variant: the order is ascending, so the oldest Paid row is taken.
SelectOldestPaid(rows, key) ==
    LET hits == {i \in 1..Len(rows) :
                    /\ rows[i].transaction_key = key
                    /\ rows[i].status = "Paid"}
    IN  IF hits = {} THEN NoRow
        ELSE rows[CHOOSE i \in hits : \A j \in hits : i <= j]

\* Variant: the filter on transaction_key is missing.
SelectLatestPaidAnyKey(rows, key) ==
    LET hits == {i \in 1..Len(rows) : rows[i].status = "Paid"}
    IN  IF hits = {} THEN NoRow
        ELSE rows[CHOOSE i \in hits : \A j \in hits : j <= i]

\* .eq('transaction_key', key).eq('status', 'Paid')
\* .order('created_at', {ascending: false}).limit(1).single()
\* NoRow stands for the error single() reports when no row matches.
SelectLatestPaid(rows, key) ==
    LET hits == {i \in 1..Len(rows) :
                    /\ rows[i].transaction_key = key
                    /\ rows[i].status = "Paid"}
    IN  IF hits = {} THEN NoRow
        ELSE rows[CHOOSE i \in hits : \A j \in hits : j <= i]

\* Variant: the reversal row repeats the amount without negating it.
CancelRecordSameSign(existingPayment) ==
    [NoRow EXCEPT
        !.transaction_key  = existingPayment.transaction_key,
        !.amount           = existingPayment.amount,
        !.status           = "Cancel",
        !.start_at         = existingPayment.start_at,
        !.end_at           = existingPayment.end_at,
        !.end_grace_at     = existingPayment.end_grace_at,
        !.next_schedule_at = existingPayment.next_schedule_at,
        !.next_schedule_id = existingPayment.next_schedule_id]

\* The reversal row written by handleCancelledScenario.
CancelRecord(existingPayment) ==
    [NoRow EXCEPT
        !.transaction_key  = existingPayment.transaction_key,
        !.amount           = 0 - existingPayment.amount,
        !.status           = "Cancel",
        !.start_at         = existingPayment.start_at,
        !.end_at           = existingPayment.end_at,
        !.end_grace_at     = existingPayment.end_grace_at,
        !.next_schedule_at = existingPayment.next_schedule_at,
        !.next_schedule_id = existingPayment.next_schedule_id]

\* Variant: the result of the select is used without a check.
SelectNeverFails(found) == FALSE

\* if (selectError || !existingPayment) for a select the store performed.
SelectFailed(found) == found = NoRow

\* Variant: a conditional insert, skipped when the table already holds a row
\* with the key and status of the new one.
InsertUnlessPresent(rows, row) ==
    IF \E i \in 1..Len(rows) : /\ rows[i].transaction_key = row.transaction_key
                               /\ rows[i].status = row.status
      THEN rows
      ELSE Append(rows, row)

\* Variant: an upsert on (transaction_key, status).
UpsertInto(rows, row) ==
    LET same == {i \in 1..Len(rows) : /\ rows[i].transaction_key = row.transaction_key
                                      /\ rows[i].status = row.status}
    IN  IF same = {} THEN Append(rows, row)
        ELSE [i \in 1..Len(rows) |-> IF i \in same THEN row ELSE rows[i]]

\* The table after the store has performed an insert.
InsertInto(rows, row) == Append(rows, row)

-----------------------------------------------------------------------------
(* Gateway schedule registry *)

\* Variant: the schedule steps run whether or not there is a billing key.
AlwaysBillingKey(paymentData) == TRUE

\* if (paymentData.billingKey)
HasBillingKey(paymentData) == paymentData.billingKey # Absent

\* Variant: the charge is scheduled at end_grace_at, not at next_schedule_at.
CreateScheduleArgAtGraceEnd(paymentData, record) ==
    [paymentId  |-> record.next_schedule_id,
     billingKey |-> paymentData.billingKey,
     orderName  |-> paymentData.orderName,
     customer   |-> paymentData.customer,
     amount     |-> paymentData.amount,
     currency   |-> "KRW",
     timeToPay  |-> record.end_grace_at]

\* Body of POST /payments/{nextScheduleId}/schedule.
CreateScheduleArg(paymentData, record) ==
    [paymentId  |-> record.next_schedule_id,
     billingKey |-> paymentData.billingKey,
     orderName  |-> paymentData.orderName,
     customer   |-> paymentData.customer,
     amount     |-> paymentData.amount,
     currency   |-> "KRW",
     timeToPay  |-> record.next_schedule_at]

\* The schedule the gateway registers for an accepted create request.
NewSchedule(arg) ==
    [id |-> 1000 + arg.paymentId, paymentId |-> arg.paymentId,
     billingKey |-> arg.billingKey, timeToPay |-> arg.timeToPay]

\* Variant: both ends of the window are the day after next_schedule_at, as
\* when fromDate and untilDate are one Date object.
QueryFilterOneDate(paymentData, existingPayment) ==
    LET scheduleDate == ParseDate(existingPayment.next_schedule_at)
    IN  [billingKey |-> paymentData.billingKey,
         from       |-> ToISOString(AddDays(scheduleDate, 1)),
         until      |-> ToISOString(AddDays(scheduleDate, 1))]

\* Filter of GET /payment-schedules: next_schedule_at -/+ 1 day.
QueryFilter(paymentData, existingPayment) ==
    LET scheduleDate == ParseDate(existingPayment.next_schedule_at)
    IN  [billingKey |-> paymentData.billingKey,
         from       |-> ToISOString(AddDays(scheduleDate, 0 - 1)),
         until      |-> ToISOString(AddDays(scheduleDate, 1))]

\* The items the gateway returns for a filter.
MatchingSchedules(filter) ==
    {s \in schedules :
        /\ s.billingKey = filter.billingKey
        /\ ParseDate(filter.from) <= ParseDate(s.timeToPay)
        /\ ParseDate(s.timeToPay) <= ParseDate(filter.until)}

\* Variant: the first item returned is taken, whatever its paymentId.
FindAnyItem(items, existingPayment) ==
    IF items = {} THEN NoSchedule ELSE CHOOSE s \in items : TRUE

\* scheduleItems.find(item => item.paymentId === existingPayment.next_schedule_id)
FindTarget(items, existingPayment) ==
    LET hits == {s \in items : s.paymentId = existingPayment.next_schedule_id}
    IN  IF hits = {} THEN NoSchedule ELSE CHOOSE s \in hits : TRUE

-----------------------------------------------------------------------------
(* usePaymentStatus: the subscription status shown in the browser *)

\* Instants at which the browser may read its clock: at and after the starts
\* of the periods, and at and one second after the end of the later grace.
ClientInstants ==
    { 1 * Day,
      1 * Day + 20 * 3600 + 15 * 60 + 42,
      32 * Day + 20 * 3600 + 15 * 60 + 42,
      32 * Day + 20 * 3600 + 15 * 60 + 43 }

\* The initial value of paymentStatus, also set when nothing is active.
Free == [isSubscribed |-> FALSE, transactionKey |-> Absent, statusMessage |-> "Free"]

\* The status of an active subscription; "subscribed" stands for the Korean
\* statusMessage of the source.
Subscribed(key) ==
    [isSubscribed |-> TRUE, transactionKey |-> key, statusMessage |-> "subscribed"]

\* .order("created_at", {ascending: false}) over the rows of the table.
Descending(rows) == [i \in 1..Len(rows) |-> rows[Len(rows) + 1 - i]]

\* Variant: every row is kept, so an older row of a key is looked at as well.
UngroupedPayments(payments) == payments

RECURSIVE GroupedFrom(_, _, _)
\* The loop over payments: a row without a key is skipped, and so is a row
\* whose key is in the map already.
GroupedFrom(payments, i, grouped) ==
    IF i > Len(payments) THEN grouped
    ELSE LET key == payments[i].transaction_key IN
         IF key = Absent
           \/ \E j \in 1..Len(grouped) : grouped[j].transaction_key = key
         THEN GroupedFrom(payments, i + 1, grouped)
         ELSE GroupedFrom(payments, i + 1, Append(grouped, payments[i]))

\* Array.from(groupedPayments.values()): the first row of each key, in order
\* of first appearance.
GroupedPayments(payments) == GroupedFrom(payments, 1, <<>>)

\* The filter on status and on start_at <= now <= end_grace_at.
IsActive(payment, now) ==
    /\ payment.status = "Paid"
    /\ ParseDate(payment.start_at) <= now
    /\ now <= ParseDate(payment.end_grace_at)

ActivePayments(grouped, now) ==
    SelectSeq(grouped, LAMBDA payment : IsActive(payment, now))

\* The paymentStatus set for the rows the select returned.
StatusOf(payments, now) ==
    IF payments = <<>> THEN Free
    ELSE LET activePayments == ActivePayments(GroupedPayments(payments), now) IN
         IF Len(activePayments) > 0
           THEN Subscribed(activePayments[1].transaction_key)
           ELSE Free

\* The hook as mounted; `payments` and `now` keep what the last completed
\* fetch read, for stating properties.
Mounted ==
    [pc |-> "mounted", isLoading |-> TRUE, error |-> Absent, paymentStatus |-> Free,
     payments |-> <<>>, now |-> 0]

-----------------------------------------------------------------------------
(* usePaymentCancel: the cancel operation of the browser *)

\* What POST /api/payments/cancel may bring: a body with success true, with
\* success false, without a success field, a body that is not JSON, or a
\* rejected fetch.
CancelAnswers == {"success", "failure", "nofield", "notjson", "reject"}

\* handleCancelSubscription before it is called; `answer` keeps what the API
\* brought, `sent` the transactionKey of the request body, `pushed` the route
\* given to router.push, `returned` the value the promise resolved with.
NotCancelling ==
    [pc |-> "idle", transactionKey |-> Absent, confirmed |-> FALSE,
     sent |-> Absent, answer |-> "none", alert |-> "none", pushed |-> Absent,
     returned |-> "none"]

\* Variant: the list is shown and true is returned whatever the API said.
CancelResultNotChecked(c, answer) ==
    IF answer \in {"notjson", "reject"}
      THEN [c EXCEPT !.pc = "returned", !.answer = answer,
                     !.alert = "error", !.returned = "false"]
    ELSE [c EXCEPT !.pc = "returned", !.answer = answer, !.alert = "cancelled",
                   !.pushed = "/magazines", !.returned = "true"]

\* handleCancelSubscription once the fetch has settled: the catch for a
\* rejected fetch or a body that is not JSON, the failure branch for a falsy
\* cancelResult.success, and the success branch.
CancelResult(c, answer) ==
    IF answer \in {"notjson", "reject"}
      THEN [c EXCEPT !.pc = "returned", !.answer = answer,
                     !.alert = "error", !.returned = "false"]
    ELSE IF answer # "success"
      THEN [c EXCEPT !.pc = "returned", !.answer = answer,
                     !.alert = "failed", !.returned = "false"]
    ELSE [c EXCEPT !.pc = "returned", !.answer = answer, !.alert = "cancelled",
                   !.pushed = "/magazines", !.returned = "true"]

-----------------------------------------------------------------------------
(* Bookkeeping *)

Call(op, res) == [op |-> op, res |-> res]

Logged(p, op, res) == calls' = [calls EXCEPT ![p] = Append(@, Call(op, res))]

Respond(p, r) ==
    /\ pc'   = [pc EXCEPT ![p] = "done"]
    /\ resp' = [resp EXCEPT ![p] = r]

Goto(p, label) ==
    /\ pc'   = [pc EXCEPT ![p] = label]
    /\ resp' = resp

NoBody == [payment_id |-> Absent, status |-> "none"]

TypeOK ==
    /\ scope \in {"wide", "deep", "dates", "client", "cancel"}
    /\ tz \in AllTzOffsets
    /\ clock \in AllInstants
    /\ uuidCtr \in 0..Deliveries
    /\ Len(ledger) <= Deliveries
    /\ \A p \in Procs : req[p] \in Bodies \cup {NoBody}
    /\ \A p \in Procs : p > Deliveries => pc[p] = "idle"

Start ==
    /\ clock = 1 * Day
    /\ uuidCtr = 0
    /\ ledger = <<>>
    /\ schedules = {}
    /\ pc = [p \in Procs |-> "idle"]
    /\ req = [p \in Procs |-> NoBody]
    /\ loc = [p \in Procs |-> NoLocals]
    /\ calls = [p \in Procs |-> <<>>]
    /\ resp = [p \in Procs |-> NoResponse]
    /\ pre = [p \in Procs |-> {}]
    /\ hook = Mounted
    /\ cancel = NotCancelling

Init ==
    /\ scope = "wide"
    /\ tz \in TzOffsets
    /\ Start

InitDeep ==
    /\ scope = "deep"
    /\ tz = 0
    /\ Start

InitDates ==
    /\ scope = "dates"
    /\ tz \in AllTzOffsets
    /\ Start

-----------------------------------------------------------------------------
(* POST: parse the body and dispatch on payload.status *)

\* Variant: every status but Cancelled is handled as Paid.
RoutePaidByDefault(status) ==
    IF status = "Cancelled" THEN "cancelled_getPayment" ELSE "paid_getPayment"

\* The handler a status is dispatched to.
Route(status) ==
    IF status = "Paid" THEN "paid_getPayment"
    ELSE IF status = "Cancelled" THEN "cancelled_getPayment"
    ELSE "respond"

\* NextResponse.json({success: true}) for a status that is not recognised.
Acknowledge == [NoResponse EXCEPT !.success = TRUE, !.http = 200]

POST(p) ==
    /\ pc[p] = "idle"
    /\ p <= Deliveries
    /\ \A q \in Procs : q < p => pc[q] # "idle"
    /\ \E body \in ScopeBodies(p) :
        /\ req' = [req EXCEPT ![p] = body]
        /\ IF body = BadJson
             THEN Respond(p, Failure("request.json"))       \* json() throws
           ELSE IF Route(body.status) = "respond"
             THEN Respond(p, Acknowledge)
           ELSE Goto(p, Route(body.status))
    /\ pre' = [pre EXCEPT ![p] = {q \in Procs : pc[q] = "done"}]
    /\ UNCHANGED <<cancel, hook, scope, tz, clock, uuidCtr, ledger, schedules, loc, calls>>

-----------------------------------------------------------------------------
(* handlePaidScenario *)

\* Variant: a payment with a billing key is scheduled before its row is stored.
ScheduleBeforeInsert(paymentData) ==
    IF HasBillingKey(paymentData) THEN "paid_createSchedule" ELSE "paid_insert"

\* The step of handlePaidScenario that follows the payment lookup: the period
\* is computed synchronously and the insert is awaited next, whatever the
\* payment detail holds.
AfterPaidLookup(paymentData) == "paid_insert"

\* GET /payments/{paymentId} answers; on success the handler reads the clock,
\* draws the minute, mints next_schedule_id and sends the insert.
PaidGetPayment(p) ==
    /\ pc[p] = "paid_getPayment"
    /\ \/ /\ req[p].payment_id \in Keys
          /\ \E d \in ScopeDetails(req[p].payment_id),
                now \in {t \in ScopeInstants : t >= clock},
                minute \in ScopeMinutes :
                /\ clock' = now
                /\ uuidCtr' = uuidCtr + 1
                /\ loc' = [loc EXCEPT
                              ![p].now = now,
                              ![p].paymentData = PaidView(d),
                              ![p].record = PaidRecord(req[p].payment_id, d,
                                                ComputePeriod(now, minute),
                                                uuidCtr + 1)]
                /\ Goto(p, AfterPaidLookup(PaidView(d)))
          /\ Logged(p, "getPayment", "ok")
       \/ /\ \E res \in {"notok", "throw"} :
                /\ Logged(p, "getPayment", res)
                /\ Respond(p, Failure("getPayment"))
          /\ UNCHANGED <<clock, uuidCtr, loc>>
    /\ UNCHANGED <<cancel, hook, scope, tz, ledger, schedules, req, pre>>

\* The store executes the insert; the handler then schedules the next charge
\* when the payment has a billing key, and answers otherwise.
PaidInsert(p) ==
    /\ pc[p] = "paid_insert"
    /\ \/ /\ LET row == InsertedRow(ledger, loc[p].record, p) IN
                /\ ledger' = InsertInto(ledger, row)
                /\ loc' = [loc EXCEPT ![p].inserted = row]
                /\ IF HasBillingKey(loc[p].paymentData)
                     THEN Goto(p, "paid_createSchedule")
                     ELSE Respond(p, Success(row))
          /\ Logged(p, "insert", "ok")
       \/ /\ Logged(p, "insert", "error")
          /\ Respond(p, Failure("insert"))
          /\ UNCHANGED <<ledger, loc>>
    /\ UNCHANGED <<cancel, hook, scope, tz, clock, uuidCtr, schedules, req, pre>>

\* POST /payments/{nextScheduleId}/schedule answers.  A non-ok status is only
\* logged; a rejected fetch is not caught by the handler and reaches the catch
\* of POST.
PaidCreateSchedule(p) ==
    /\ pc[p] = "paid_createSchedule"
    /\ loc' = [loc EXCEPT ![p].created =
                  CreateScheduleArg(loc[p].paymentData, loc[p].record)]
    /\ \/ /\ schedules' = schedules \cup
                {NewSchedule(CreateScheduleArg(loc[p].paymentData, loc[p].record))}
          /\ Logged(p, "createSchedule", "ok")
          /\ Respond(p, Success(loc[p].inserted))
       \/ /\ Logged(p, "createSchedule", "notok")
          /\ Respond(p, Success(loc[p].inserted))
          /\ UNCHANGED schedules
       \/ /\ Logged(p, "createSchedule", "throw")
          /\ Respond(p, Failure("createSchedule"))
          /\ UNCHANGED schedules
    /\ UNCHANGED <<cancel, hook, scope, tz, clock, uuidCtr, ledger, req, pre>>

-----------------------------------------------------------------------------
(* handleCancelledScenario *)

CancelledGetPayment(p) ==
    /\ pc[p] = "cancelled_getPayment"
    /\ \/ /\ req[p].payment_id \in Keys
          /\ \E d \in ScopeDetails(req[p].payment_id) :
                loc' = [loc EXCEPT ![p].paymentData = d]
          /\ Logged(p, "getPayment", "ok")
          /\ Goto(p, "cancelled_select")
       \/ /\ \E res \in {"notok", "throw"} :
                /\ Logged(p, "getPayment", res)
                /\ Respond(p, Failure("getPayment"))
          /\ UNCHANGED loc
    /\ UNCHANGED <<cancel, hook, scope, tz, clock, uuidCtr, ledger, schedules, req, pre>>

\* The store executes the select of the latest Paid row of the resolved key.
CancelledSelect(p) ==
    /\ pc[p] = "cancelled_select"
    /\ LET key   == ActualPaymentId(loc[p].paymentData, req[p].payment_id)
           found == SelectLatestPaid(ledger, key)
       IN  \/ /\ ~SelectFailed(found)
              /\ loc' = [loc EXCEPT ![p].existingPayment = found,
                                    ![p].record = CancelRecord(found),
                                    ![p].selectRows = Len(ledger)]
              /\ Logged(p, "select", "ok")
              /\ Goto(p, "cancelled_insert")
           \/ /\ SelectFailed(found)
              /\ loc' = [loc EXCEPT ![p].selectRows = Len(ledger)]
              /\ Logged(p, "select", "norow")
              /\ Respond(p, Failure("notfound"))
           \/ /\ loc' = [loc EXCEPT ![p].selectRows = Len(ledger)]
              /\ Logged(p, "select", "error")          \* the store fails
              /\ Respond(p, Failure("notfound"))
    /\ UNCHANGED <<cancel, hook, scope, tz, clock, uuidCtr, ledger, schedules, req, pre>>

\* The store executes the insert of the reversal row.
CancelledInsert(p) ==
    /\ pc[p] = "cancelled_insert"
    /\ \/ /\ LET row == InsertedRow(ledger, loc[p].record, p) IN
                /\ ledger' = InsertInto(ledger, row)
                /\ loc' = [loc EXCEPT ![p].inserted = row]
                /\ IF /\ HasBillingKey(loc[p].paymentData)
                      /\ loc[p].existingPayment.next_schedule_at # NoDate
                      /\ loc[p].existingPayment.next_schedule_id # 0
                     THEN Goto(p, "cancelled_querySchedules")
                     ELSE Respond(p, Success(row))
          /\ Logged(p, "insert", "ok")
       \/ /\ Logged(p, "insert", "error")
          /\ Respond(p, Failure("insert"))
          /\ UNCHANGED <<ledger, loc>>
    /\ UNCHANGED <<cancel, hook, scope, tz, clock, uuidCtr, schedules, req, pre>>

\* GET /payment-schedules answers (axios rejects on a non-2xx status as well
\* as on a failed request; both are caught).
CancelledQuerySchedules(p) ==
    /\ pc[p] = "cancelled_querySchedules"
    /\ LET filter == QueryFilter(loc[p].paymentData, loc[p].existingPayment)
           items  == MatchingSchedules(filter)
           target == FindTarget(items, loc[p].existingPayment)
       IN  \/ /\ loc' = [loc EXCEPT ![p].targetSchedule = target,
                                    ![p].filter = filter,
                                    ![p].items = items]
              /\ IF target # NoSchedule
                   THEN Goto(p, "cancelled_cancelSchedules")
                   ELSE Respond(p, Success(loc[p].inserted))
              /\ Logged(p, "querySchedules", "ok")
           \/ /\ loc' = [loc EXCEPT ![p].filter = filter]
              /\ Logged(p, "querySchedules", "noitems")    \* data.items missing
              /\ Respond(p, Success(loc[p].inserted))
           \/ /\ loc' = [loc EXCEPT ![p].filter = filter]
              /\ Logged(p, "querySchedules", "throw")
              /\ Respond(p, Success(loc[p].inserted))
    /\ UNCHANGED <<cancel, hook, scope, tz, clock, uuidCtr, ledger, schedules, req, pre>>

\* DELETE /payment-schedules answers.
CancelledCancelSchedules(p) ==
    /\ pc[p] = "cancelled_cancelSchedules"
    /\ LET ids == {loc[p].targetSchedule.id}        \* scheduleIds of the body
       IN  \/ /\ schedules' = {s \in schedules : s.id \notin ids}
              /\ loc' = [loc EXCEPT
                            ![p].scheduleIds = ids,
                            ![p].removed = {s \in schedules : s.id \in ids}]
              /\ Logged(p, "cancelSchedules", "ok")
           \/ /\ \E res \in {"notok", "throw"} : Logged(p, "cancelSchedules", res)
              /\ loc' = [loc EXCEPT ![p].scheduleIds = ids]
              /\ UNCHANGED schedules
    /\ Respond(p, Success(loc[p].inserted))
    /\ UNCHANGED <<cancel, hook, scope, tz, clock, uuidCtr, ledger, req, pre>>

-----------------------------------------------------------------------------

Next ==
    \E p \in Procs :
        \/ POST(p)
        \/ PaidGetPayment(p)
        \/ PaidInsert(p)
        \/ PaidCreateSchedule(p)
        \/ CancelledGetPayment(p)
        \/ CancelledSelect(p)
        \/ CancelledInsert(p)
        \/ CancelledQuerySchedules(p)
        \/ CancelledCancelSchedules(p)

Spec == Init /\ [][Next]_vars

SpecDeep == InitDeep /\ [][Next]_vars

SpecDates == InitDates /\ [][Next]_vars

-----------------------------------------------------------------------------
(* usePaymentStatus.fetchPaymentStatus *)

\* Variant: the catch records the error and leaves the status as it was.
CaughtKeepsStatus(h) == [h EXCEPT !.error = "fetchError"]

\* The catch: the error message is set and the status is reset to Free.
Caught(h) == [h EXCEPT !.error = "fetchError", !.paymentStatus = Free]

\* The effect on mount, or refetch: loading is set, the error is cleared and
\* the select is sent.
FetchPaymentStatus ==
    /\ hook.pc \in {"mounted", "settled"}
    /\ hook' = [hook EXCEPT !.pc = "select", !.isLoading = TRUE, !.error = Absent,
                            !.payments = <<>>, !.now = 0]
    /\ UNCHANGED <<scope, tz, clock, uuidCtr, ledger, schedules, pc, req, loc,
                   calls, resp, pre, cancel>>

\* The store answers the select: the status is computed from the rows, or the
\* failure is caught; finally loading is cleared.
FetchPaymentStatusSelect ==
    /\ hook.pc = "select"
    /\ \/ \E now \in ClientInstants :
             LET payments == Descending(ledger) IN
             hook' = [hook EXCEPT !.pc = "settled", !.isLoading = FALSE,
                                  !.paymentStatus = StatusOf(payments, now),
                                  !.payments = payments, !.now = now]
       \/ hook' = [Caught(hook) EXCEPT !.pc = "settled", !.isLoading = FALSE]
    /\ UNCHANGED <<scope, tz, clock, uuidCtr, ledger, schedules, pc, req, loc,
                   calls, resp, pre, cancel>>

InitClient ==
    /\ scope = "client"
    /\ tz = 0
    /\ Start

NextClient ==
    \/ Next
    \/ FetchPaymentStatus
    \/ FetchPaymentStatusSelect

SpecClient == InitClient /\ [][NextClient]_vars

\* The awaited select settles: the store answers or the request fails, and the
\* continuation of fetchPaymentStatus then runs.
SpecClientFair == SpecClient /\ WF_vars(FetchPaymentStatusSelect)

-----------------------------------------------------------------------------
(* usePaymentCancel.handleCancelSubscription *)

\* The cancel button, enabled while the status is subscribed, calls the
\* operation with the transaction key shown; the user confirms or declines.
HandleCancelSubscription ==
    /\ cancel.pc \in {"idle", "returned"}
    /\ cancel.pushed = Absent
    /\ hook.paymentStatus.isSubscribed
    /\ \E confirmed \in BOOLEAN :
          LET c == [NotCancelling EXCEPT
                       !.transactionKey = hook.paymentStatus.transactionKey,
                       !.confirmed = confirmed]
          IN  cancel' = IF confirmed
                          THEN [c EXCEPT !.pc = "fetch", !.sent = c.transactionKey]
                          ELSE [c EXCEPT !.pc = "returned", !.returned = "false"]
    /\ UNCHANGED <<scope, tz, clock, uuidCtr, ledger, schedules, pc, req, loc,
                   calls, resp, pre, hook>>

\* The fetch of POST /api/payments/cancel settles.
CancelFetch ==
    /\ cancel.pc = "fetch"
    /\ \E answer \in CancelAnswers : cancel' = CancelResult(cancel, answer)
    /\ UNCHANGED <<scope, tz, clock, uuidCtr, ledger, schedules, pc, req, loc,
                   calls, resp, pre, hook>>

InitCancel ==
    /\ scope = "cancel"
    /\ tz = 0
    /\ Start

NextCancel ==
    \/ NextClient
    \/ HandleCancelSubscription
    \/ CancelFetch

SpecCancel == InitCancel /\ [][NextCancel]_vars

-----------------------------------------------------------------------------
(* Vocabulary of the properties *)

Done(p) == pc[p] = "done"

Succeeded(p) == Done(p) /\ resp[p].success /\ resp[p].http = 200

Failed(p) == Done(p) /\ ~resp[p].success /\ resp[p].http = 500

\* Delivery p has completed call `op` with result `res`.
Did(p, op, res) == \E i \in 1..Len(calls[p]) : calls[p][i] = Call(op, res)

Issued(p, op) == \E i \in 1..Len(calls[p]) : calls[p][i].op = op

ScheduleOps == {"createSchedule", "querySchedules", "cancelSchedules"}

NoScheduleCall(p) == \A op \in ScheduleOps : ~Issued(p, op)

\* Places in the table of the rows delivery p inserted.
RowsBy(p) == {i \in 1..Len(ledger) : ledger[i].by = p}

IsPaid(p) == req[p].status = "Paid"

IsCancelled(p) == req[p].status = "Cancelled"

\* The key a Cancelled delivery looks up, once the gateway has answered.
ResolvedKey(p) ==
    IF loc[p].paymentData.paymentId # Absent THEN loc[p].paymentData.paymentId
    ELSE IF loc[p].paymentData.id # Absent THEN loc[p].paymentData.id
    ELSE req[p].payment_id

\* Places of the Paid rows of key k among the first n rows of the table.
PaidPlaces(k, n) ==
    {i \in 1..n : ledger[i].transaction_key = k /\ ledger[i].status = "Paid"}

\* The store performed the select of Cancelled delivery p.
Selected(p) == IsCancelled(p) /\ (Did(p, "select", "ok") \/ Did(p, "select", "norow"))

SameWindow(r1, r2) ==
    /\ r1.start_at = r2.start_at
    /\ r1.end_at = r2.end_at
    /\ r1.end_grace_at = r2.end_grace_at
    /\ r1.next_schedule_at = r2.next_schedule_at
    /\ r1.next_schedule_id = r2.next_schedule_id

-----------------------------------------------------------------------------
(* Claims *)

\* C1: when the store performs the select of a Cancelled delivery and the
\* resolved key has a Paid row at that moment, the row selected is the Paid
\* row of that key created last; and once the store has performed the insert,
\* the delivery has inserted exactly one row: status Cancel, the same
\* transaction_key, the negated amount, and start_at, end_at, end_grace_at,
\* next_schedule_at and next_schedule_id of the selected row.
C1_ReversalOfLatestPaid ==
    \A p \in Procs :
        LET paid == PaidPlaces(ResolvedKey(p), loc[p].selectRows)
            sel  == loc[p].existingPayment
        IN  (Selected(p) /\ paid # {}) =>
              /\ Did(p, "select", "ok")
              /\ \E i \in paid : /\ sel = ledger[i]
                                 /\ \A j \in paid : j <= i
              /\ Did(p, "insert", "ok") =>
                    /\ Cardinality(RowsBy(p)) = 1
                    /\ \A i \in RowsBy(p) :
                          /\ ledger[i].status = "Cancel"
                          /\ ledger[i].transaction_key = sel.transaction_key
                          /\ ledger[i].transaction_key = ResolvedKey(p)
                          /\ ledger[i].amount + sel.amount = 0
                          /\ SameWindow(ledger[i], sel)
              /\ (Done(p) /\ ~Did(p, "insert", "ok")) => RowsBy(p) = {}

\* C1 witness: a Cancelled delivery has inserted its reversal row after
\* choosing among two Paid rows of its key.
C1_Witness ==
    \E p \in Procs :
        /\ Selected(p)
        /\ Cardinality(PaidPlaces(ResolvedKey(p), loc[p].selectRows)) = 2
        /\ Did(p, "insert", "ok")
        /\ Succeeded(p)

\* C2: a Cancelled delivery whose resolved key has no Paid row when the
\* select runs ends in a failure response, has inserted no row and has issued
\* no schedule query and no schedule cancel call.
C2_NoPaidRowFails ==
    \A p \in Procs :
        (Selected(p) /\ PaidPlaces(ResolvedKey(p), loc[p].selectRows) = {}) =>
            /\ Failed(p)
            /\ resp[p].error = "notfound"
            /\ RowsBy(p) = {}
            /\ ~Issued(p, "insert")
            /\ NoScheduleCall(p)

\* C2 witness: the select found nothing although the table holds a Paid row
\* (of another key), and the delivery has been answered.
C2_Witness ==
    \E p \in Procs :
        /\ Selected(p)
        /\ PaidPlaces(ResolvedKey(p), loc[p].selectRows) = {}
        /\ \E i \in 1..loc[p].selectRows : ledger[i].status = "Paid"
        /\ Done(p)

\* C3: every row with status Cancel is preceded in the table by a row with
\* status Paid and the same transaction_key.
C3_CancelAfterPaid ==
    \A i \in 1..Len(ledger) :
        ledger[i].status = "Cancel" =>
            \E j \in 1..(i - 1) :
                /\ ledger[j].status = "Paid"
                /\ ledger[j].transaction_key = ledger[i].transaction_key
                /\ ledger[j].created_at < ledger[i].created_at

\* C3 witness: a Cancel row is in the table while another delivery is still
\* being handled.
C3_Witness ==
    /\ \E i \in 1..Len(ledger) : ledger[i].status = "Cancel"
    /\ \E p \in Procs : pc[p] \notin {"idle", "done"}

\* Local (server time zone) calendar day and second of the day of an instant.
LocalDay(t) == (t + tz) \div Day

LocalSecond(t) == (t + tz) % Day

\* The row a delivery inserted, as the store returned it.
Inserted(p) == loc[p].inserted

\* C4: the row of a Paid delivery handled at instant now has start_at = now,
\* end_at = start_at + 30 days, end_grace_at = end_at + 1 day, and
\* next_schedule_at on the day of end_at + 1 day between 10:00:00 and
\* 10:59:59 with zero seconds, day and time of day being read in the time
\* zone of the server.
C4_PaidPeriod ==
    \A p \in Procs :
        (IsPaid(p) /\ Did(p, "insert", "ok")) =>
            \A i \in RowsBy(p) :
                LET startAt == ParseDate(ledger[i].start_at)
                    endAt   == ParseDate(ledger[i].end_at)
                    graceAt == ParseDate(ledger[i].end_grace_at)
                    nextAt  == ParseDate(ledger[i].next_schedule_at)
                IN  /\ startAt = loc[p].now
                    /\ endAt = startAt + 30 * Day
                    /\ graceAt = endAt + Day
                    /\ LocalDay(nextAt) = LocalDay(endAt + Day)
                    /\ LocalSecond(nextAt) >= 10 * 3600
                    /\ LocalSecond(nextAt) <= 10 * 3600 + 59 * 60 + 59
                    /\ LocalSecond(nextAt) % 60 = 0
                    /\ ledger[i].next_schedule_at.sec = 0

\* C4 witness: a Paid delivery answered with success on a server east of UTC,
\* late enough in the day that the UTC day of start_at is the local day
\* before, with random minute 59.
C4_Witness ==
    \E p \in Procs :
        /\ IsPaid(p)
        /\ Succeeded(p)
        /\ tz > 0
        /\ LocalDay(loc[p].now) > loc[p].now \div Day
        /\ \E i \in RowsBy(p) : LocalSecond(ParseDate(ledger[i].next_schedule_at))
                                    = 10 * 3600 + 59 * 60

\* C5 (as claimed): once the insert of a delivery has succeeded, the delivery
\* is answered with success and the inserted row, whatever the schedule-side
\* calls do.
C5_ScheduleFailuresSwallowed ==
    \A p \in Procs :
        (Done(p) /\ Did(p, "insert", "ok")) =>
            /\ Succeeded(p)
            /\ resp[p].payment = Inserted(p)

\* C6: when the payment detail has no billingKey, the delivery issues no
\* create-schedule, schedule query or schedule cancel call; once its insert
\* has succeeded its row is in the table and it is answered with success and
\* that row.
C6_NoBillingKeyNoSchedule ==
    \A p \in Procs :
        (Did(p, "getPayment", "ok") /\ loc[p].paymentData.billingKey = Absent) =>
            /\ NoScheduleCall(p)
            /\ Did(p, "insert", "ok") =>
                  /\ Succeeded(p)
                  /\ resp[p].payment = Inserted(p)
                  /\ RowsBy(p) = {Inserted(p).created_at}
                  /\ ledger[Inserted(p).created_at] = Inserted(p)

\* C6 witness: a Paid and a Cancelled delivery, both for payments without a
\* billing key, have inserted their rows.
C6_Witness ==
    \E p, q \in Procs :
        /\ IsPaid(p) /\ IsCancelled(q)
        /\ loc[p].paymentData.billingKey = Absent
        /\ loc[q].paymentData.billingKey = Absent
        /\ Did(p, "insert", "ok") /\ Did(q, "insert", "ok")
        /\ Succeeded(p) /\ Succeeded(q)

\* A fatal step of delivery p has failed.
FatalFailure(p) ==
    \/ Did(p, "getPayment", "notok") \/ Did(p, "getPayment", "throw")
    \/ Did(p, "select", "norow") \/ Did(p, "select", "error")
    \/ Did(p, "insert", "error")

\* C7: when the payment lookup, the ledger lookup of the Cancelled flow or the
\* ledger insert fails, the delivery is answered with a failure (status 500),
\* has inserted no row and has issued no schedule-side call.
C7_FatalFailureAborts ==
    \A p \in Procs :
        FatalFailure(p) =>
            /\ Failed(p)
            /\ resp[p].payment = NoRow
            /\ RowsBy(p) = {}
            /\ NoScheduleCall(p)

\* C7 witness: the insert of a Cancelled delivery has failed after its select
\* had found a Paid row.
C7_Witness ==
    \E p \in Procs :
        /\ IsCancelled(p)
        /\ Did(p, "select", "ok")
        /\ Did(p, "insert", "error")
        /\ Len(ledger) > 0

\* C8: a parsed event whose status is neither Paid nor Cancelled is answered
\* with {success: true}; it issues no call and inserts no row.
C8_UnknownStatusNoOp ==
    \A p \in Procs :
        (pc[p] # "idle" /\ req[p] # BadJson /\ ~IsPaid(p) /\ ~IsCancelled(p)) =>
            /\ Succeeded(p)
            /\ resp[p].payment = NoRow
            /\ calls[p] = <<>>
            /\ RowsBy(p) = {}
            /\ loc[p] = NoLocals

\* C8 witness: an event with status Ready has been answered while the table
\* holds a row and another delivery is being handled.
C8_Witness ==
    \E p, q \in Procs :
        /\ req[p].status = "Ready"
        /\ Done(p)
        /\ Len(ledger) > 0
        /\ pc[q] \notin {"idle", "done"}

\* The payment lookup and the insert of Paid delivery p have succeeded.
PaidStored(p) == IsPaid(p) /\ Did(p, "getPayment", "ok") /\ Did(p, "insert", "ok")

\* C9: when the same Paid event is delivered again after the first delivery
\* has been answered, and lookup and insert succeed both times, the table
\* holds two distinct Paid rows with the event's payment_id, one of each
\* delivery.
C9_PaidNotIdempotent ==
    \A p, q \in Procs :
        (/\ p \in pre[q]
         /\ req[p] = req[q]
         /\ PaidStored(p) /\ PaidStored(q)) =>
            \E i \in RowsBy(p), j \in RowsBy(q) :
                /\ i < j
                /\ ledger[i] # ledger[j]
                /\ ledger[i].status = "Paid" /\ ledger[j].status = "Paid"
                /\ ledger[i].transaction_key = req[p].payment_id
                /\ ledger[j].transaction_key = req[p].payment_id
                /\ ledger[i].next_schedule_id # ledger[j].next_schedule_id

\* C9 witness: the second of two identical Paid deliveries, handled one after
\* the other, has been answered with success.
C9_Witness ==
    \E p, q \in Procs :
        /\ p \in pre[q]
        /\ req[p] = req[q]
        /\ PaidStored(p) /\ PaidStored(q)
        /\ Succeeded(p) /\ Succeeded(q)

\* Deliveries p and q were handled at the same time: each arrived before the
\* other was answered.
Concurrent(p, q) ==
    /\ p # q
    /\ pc[p] # "idle" /\ pc[q] # "idle"
    /\ p \notin pre[q] /\ q \notin pre[p]

\* No call of delivery p has failed.
NoFault(p) ==
    \A i \in 1..Len(calls[p]) : calls[p][i].res \in {"ok", "noitems"}

\* C10: of two Paid deliveries for the same key handled at the same time,
\* each one whose own calls succeed is answered with success and its row, and
\* the row each has inserted stays in the table as inserted, next to the
\* other's.
C10_ConcurrentPaidBothInsert ==
    \A p, q \in Procs :
        (/\ Concurrent(p, q)
         /\ IsPaid(p) /\ IsPaid(q)
         /\ req[p].payment_id = req[q].payment_id) =>
            /\ Did(p, "insert", "ok") =>
                  /\ RowsBy(p) = {Inserted(p).created_at}
                  /\ ledger[Inserted(p).created_at] = Inserted(p)
                  /\ Inserted(p).transaction_key = req[p].payment_id
            /\ (Done(p) /\ NoFault(p)) =>
                  /\ Succeeded(p)
                  /\ Did(p, "insert", "ok")
                  /\ resp[p].payment = Inserted(p)
            /\ (Did(p, "insert", "ok") /\ Did(q, "insert", "ok")) =>
                  /\ Inserted(p).created_at # Inserted(q).created_at
                  /\ Len(ledger) >= 2

\* C10 witness: two concurrent Paid deliveries for one key have both been
\* answered with success, the one that read the clock second having inserted
\* first.
C10_Witness ==
    \E p, q \in Procs :
        /\ Concurrent(p, q)
        /\ IsPaid(p) /\ IsPaid(q)
        /\ req[p].payment_id = req[q].payment_id
        /\ Succeeded(p) /\ Succeeded(q)
        /\ Inserted(p).next_schedule_id < Inserted(q).next_schedule_id
        /\ Inserted(p).created_at > Inserted(q).created_at

\* Number of calls `op` delivery p has completed.
Count(p, op) == Cardinality({i \in 1..Len(calls[p]) : calls[p][i].op = op})

\* C11: a Paid delivery answered with success whose payment detail carries a
\* billingKey has issued exactly one create-schedule call; its payment id is
\* the next_schedule_id of the row the delivery inserted, its timeToPay that
\* row's next_schedule_at, and its billing key, order name, customer id and
\* amount are those of the payment detail.
C11_OneScheduleForTheRow ==
    \A p \in Procs :
        (IsPaid(p) /\ Succeeded(p) /\ loc[p].paymentData.billingKey # Absent) =>
            /\ Count(p, "createSchedule") = 1
            /\ RowsBy(p) = {Inserted(p).created_at}
            /\ \A i \in RowsBy(p) :
                  /\ loc[p].created.paymentId = ledger[i].next_schedule_id
                  /\ loc[p].created.timeToPay = ledger[i].next_schedule_at
                  /\ loc[p].created.amount = ledger[i].amount
            /\ loc[p].created.billingKey = "bk_1"
            /\ loc[p].created.orderName = "plan"
            /\ loc[p].created.customer = "cust_1"
            /\ loc[p].created.amount = AmountOf(req[p].payment_id)
            /\ loc[p].created.currency = "KRW"
            /\ Did(p, "createSchedule", "ok") =>
                  \A s \in schedules :
                      s.paymentId = Inserted(p).next_schedule_id =>
                          /\ s.timeToPay = Inserted(p).next_schedule_at
                          /\ s.billingKey = "bk_1"

\* C11 witness: a Paid delivery with a billing key has been answered with
\* success and its schedule is registered at the gateway.
C11_Witness ==
    \E p \in Procs :
        /\ IsPaid(p) /\ Succeeded(p)
        /\ Did(p, "createSchedule", "ok")
        /\ \E s \in schedules : s.paymentId = Inserted(p).next_schedule_id

\* The schedule query of Cancelled delivery p has returned an item whose
\* paymentId is the found entry's next_schedule_id.
Returned(p) ==
    /\ Did(p, "querySchedules", "ok")
    /\ \E s \in loc[p].items :
          s.paymentId = loc[p].existingPayment.next_schedule_id

\* C12: a Cancelled delivery issues one cancel-schedules call when its schedule
\* query returned an item whose paymentId is the found entry's
\* next_schedule_id, and none otherwise; the call carries the gateway id of
\* that item only, and no schedule with another paymentId is ever cancelled
\* by the delivery.
C12_CancelsOnlyTheTarget ==
    \A p \in Procs :
        IsCancelled(p) =>
            LET matching == {s \in loc[p].items :
                               s.paymentId = loc[p].existingPayment.next_schedule_id}
            IN  /\ Count(p, "cancelSchedules") <= 1
                /\ pc[p] = "cancelled_cancelSchedules" => Returned(p)
                /\ Done(p) => (Count(p, "cancelSchedules") = 1 <=> Returned(p))
                /\ Count(p, "cancelSchedules") = 1 =>
                      /\ Returned(p)
                      /\ Cardinality(loc[p].scheduleIds) = 1
                      /\ loc[p].scheduleIds = {s.id : s \in matching}
                /\ \A s \in loc[p].removed :
                      s.paymentId = loc[p].existingPayment.next_schedule_id

\* C12 witness: the schedule query returned two items and the delivery
\* cancelled the one of the found entry, leaving the other pending.
C12_Witness ==
    \E p \in Procs :
        /\ IsCancelled(p) /\ Succeeded(p)
        /\ Cardinality(loc[p].items) = 2
        /\ Cardinality(loc[p].removed) = 1
        /\ \E s \in schedules : s \in loc[p].items

\* Call i of the log of p is preceded in that log by the call `op` answered ok.
Preceded(p, i, op) == \E j \in 1..(i - 1) : calls[p][j] = Call(op, "ok")

\* C13: within a delivery the gateway payment lookup has completed before the
\* ledger is read or written, and the ledger insert has succeeded before any
\* create-, query- or cancel-schedule call is issued.
C13_StepsInOrder ==
    \A p \in Procs :
        /\ pc[p] \in {"paid_insert", "cancelled_select", "cancelled_insert"} =>
              Did(p, "getPayment", "ok")
        /\ pc[p] \in {"paid_createSchedule", "cancelled_querySchedules",
                      "cancelled_cancelSchedules"} =>
              Did(p, "insert", "ok")
        /\ calls[p] # <<>> => calls[p][1].op = "getPayment"
        /\ RowsBy(p) # {} => Did(p, "getPayment", "ok")
        /\ \A i \in 1..Len(calls[p]) :
              /\ calls[p][i].op \in {"select", "insert"} =>
                    Preceded(p, i, "getPayment")
              /\ calls[p][i].op \in ScheduleOps =>
                    /\ Preceded(p, i, "insert")
                    /\ RowsBy(p) # {}

\* C13 witness: a Cancelled delivery has made its five calls, in order.
C13_Witness ==
    \E p \in Procs :
        calls[p] = <<Call("getPayment", "ok"), Call("select", "ok"),
                     Call("insert", "ok"), Call("querySchedules", "ok"),
                     Call("cancelSchedules", "ok")>>

\* The request of delivery p is a Paid or Cancelled event.
Recognized(p) == IsPaid(p) \/ IsCancelled(p)

\* Rows are only ever appended: a step leaves every existing row in place.
LedgerOnlyGrows ==
    [][/\ Len(ledger') >= Len(ledger)
       /\ \A i \in 1..Len(ledger) : ledger'[i] = ledger[i]
       /\ Len(ledger') <= Len(ledger) + 1]_vars

\* C14: the ledger is append-only: rows stay at their place as inserted, a
\* Paid or Cancelled delivery answered with success has added exactly one row,
\* and a delivery answered with a failure, or one with an unrecognized status,
\* has added none.
C14_AppendOnlyOneRowPerSuccess ==
    /\ \A i \in 1..Len(ledger) :
          /\ ledger[i].created_at = i
          /\ ledger[i] = loc[ledger[i].by].inserted
    /\ \A p \in Procs :
          /\ Cardinality(RowsBy(p)) <= 1
          /\ (Recognized(p) /\ Succeeded(p)) => Cardinality(RowsBy(p)) = 1
          /\ Failed(p) => RowsBy(p) = {}
          /\ (pc[p] # "idle" /\ ~Recognized(p)) => RowsBy(p) = {}

\* The part of C14 that does not speak of failed deliveries.
AppendOnlyOneRowPerSuccess ==
    /\ \A i \in 1..Len(ledger) :
          /\ ledger[i].created_at = i
          /\ ledger[i] = loc[ledger[i].by].inserted
    /\ \A p \in Procs :
          /\ Cardinality(RowsBy(p)) <= 1
          /\ (Recognized(p) /\ Succeeded(p)) => Cardinality(RowsBy(p)) = 1
          /\ (Failed(p) /\ ~Did(p, "createSchedule", "throw")) => RowsBy(p) = {}
          /\ (pc[p] # "idle" /\ ~Recognized(p)) => RowsBy(p) = {}

\* C15: a Cancelled delivery looks up the ledger with the paymentId of the
\* gateway detail when the detail has one, else with the detail's id when it
\* has one, else with the payment_id of the webhook event; the Cancel row it
\* inserts carries that key.
C15_LookupKeyPrecedence ==
    \A p \in Procs :
        (IsCancelled(p) /\ Did(p, "getPayment", "ok")) =>
            LET d   == loc[p].paymentData
                key == CASE d.paymentId # Absent -> d.paymentId
                         [] d.paymentId = Absent /\ d.id # Absent -> d.id
                         [] OTHER -> req[p].payment_id
            IN  /\ Did(p, "select", "ok") =>
                      /\ loc[p].existingPayment.transaction_key = key
                      /\ loc[p].existingPayment.created_at
                            \in PaidPlaces(key, loc[p].selectRows)
                /\ Did(p, "select", "norow") =>
                      PaidPlaces(key, loc[p].selectRows) = {}
                /\ Did(p, "insert", "ok") =>
                      /\ Inserted(p).transaction_key = key
                      /\ \A i \in RowsBy(p) :
                            /\ ledger[i].transaction_key = key
                            /\ ledger[i].status = "Cancel"

\* C15 witness: a Cancelled delivery whose detail has a paymentId and a
\* different id found its row under the paymentId and inserted the Cancel row.
C15_Witness ==
    \E p \in Procs :
        /\ IsCancelled(p) /\ Succeeded(p)
        /\ loc[p].paymentData.paymentId # Absent
        /\ loc[p].paymentData.id # Absent
        /\ loc[p].paymentData.id # loc[p].paymentData.paymentId
        /\ Inserted(p).transaction_key = loc[p].paymentData.paymentId
        /\ RowsBy(p) # {}

\* The body of delivery p is malformed: it is not JSON, or it has no payment_id.
Malformed(p) == pc[p] # "idle" /\ req[p].payment_id = Absent

\* C16: a delivery with a malformed payload is rejected before a handler is
\* dispatched: no gateway call is issued for it and the ledger is not accessed.
C16_MalformedRejected ==
    \A p \in Procs :
        Malformed(p) =>
            /\ pc[p] = "done"
            /\ calls[p] = <<>>
            /\ RowsBy(p) = {}

\* Delivery p was answered with success and the row it inserted.
SuccessWithRow(p) ==
    /\ Succeeded(p)
    /\ resp[p].payment = Inserted(p)
    /\ RowsBy(p) = {resp[p].payment.created_at}

\* Delivery p was answered with status 500 and an error message.
FailureWithMessage(p) ==
    /\ Failed(p)
    /\ resp[p].error # "none"
    /\ resp[p].payment = NoRow

\* C17: a delivery of a Paid or Cancelled event ends either with success and
\* the row it inserted, or with a failure of status 500 and an error message;
\* it ends with a failure exactly when its payment lookup, its ledger lookup
\* or its ledger insert failed.
C17_SuccessOrFatalFailure ==
    \A p \in Procs :
        (Done(p) /\ Recognized(p)) =>
            /\ SuccessWithRow(p) \/ FailureWithMessage(p)
            /\ Failed(p) <=> FatalFailure(p)

\* What holds instead of C17: a rejected create-schedule fetch is answered
\* with a failure as well.
SuccessOrFailureOfAnyThrow ==
    \A p \in Procs :
        (Done(p) /\ Recognized(p)) =>
            /\ SuccessWithRow(p) \/ FailureWithMessage(p)
            /\ Failed(p) <=> (FatalFailure(p) \/ Did(p, "createSchedule", "throw"))

\* Among the rows the status fetch read, row i is the most recently created
\* of its key, is a Paid row and its period holds the instant the fetch read.
LatestAndActive(i) ==
    LET r == hook.payments[i] IN
    /\ \A j \in 1..Len(hook.payments) :
          hook.payments[j].transaction_key = r.transaction_key =>
              hook.payments[j].created_at <= r.created_at
    /\ r.status = "Paid"
    /\ ParseDate(r.start_at) <= hook.now
    /\ hook.now <= ParseDate(r.end_grace_at)

NoFaultButNotFound(p) ==
    \A i \in 1..Len(calls[p]) : calls[p][i].res \in {"ok", "noitems", "norow"}

\* p is a Paid and q a Cancelled delivery for the same key, they are the only
\* deliveries, both have been answered and none of their calls has failed.
PaidAndCancelledAlone(p, q) ==
    /\ IsPaid(p) /\ IsCancelled(q)
    /\ req[p].payment_id = req[q].payment_id
    /\ Done(p) /\ Done(q)
    /\ \A r \in Procs \ {p, q} : pc[r] = "idle"
    /\ NoFault(p) /\ NoFaultButNotFound(q)
    /\ Did(q, "getPayment", "ok") /\ ResolvedKey(q) = req[p].payment_id

\* C19: when one Paid and one Cancelled delivery for the same key have run, in
\* any interleaving, on an empty ledger and no call has failed, the ledger is
\* either the Paid row alone, the Cancelled delivery having failed as not
\* found, or the Paid row followed by its Cancel row, both deliveries having
\* succeeded; the Cancelled delivery has succeeded exactly when its select
\* ran after the insert of the Paid row.
C19_PaidCancelledRace ==
    \A p, q \in Procs :
        PaidAndCancelledAlone(p, q) =>
            /\ Succeeded(p)
            /\ Inserted(p).status = "Paid"
            /\ \/ /\ ledger = <<Inserted(p)>>
                  /\ Failed(q) /\ Did(q, "select", "norow")
                  /\ resp[q].error = "notfound"
               \/ /\ ledger = <<Inserted(p), Inserted(q)>>
                  /\ Succeeded(q)
                  /\ Inserted(q).status = "Cancel"
                  /\ Inserted(q).transaction_key = Inserted(p).transaction_key
                  /\ Inserted(q).amount = 0 - Inserted(p).amount
                  /\ SameWindow(Inserted(q), Inserted(p))
                  /\ resp[q].payment = Inserted(q)
            /\ Succeeded(q) <=> loc[q].selectRows = 1
            /\ Failed(q) <=> loc[q].selectRows = 0

\* C19 witness: the Cancelled delivery arrived first, the two ran at the same
\* time, and its select ran after the insert of the Paid row, so both
\* succeeded.
C19_Witness ==
    \E p, q \in Procs :
        /\ PaidAndCancelledAlone(p, q)
        /\ q < p
        /\ Concurrent(p, q)
        /\ Succeeded(p) /\ Succeeded(q)
        /\ Len(ledger) = 2

\* Every call of delivery p was answered ok.
AllCallsOk(p) == \A i \in 1..Len(calls[p]) : calls[p][i].res = "ok"

\* Delivery r concerns the key of Cancelled delivery q.
SameKey(r, q) ==
    req[r].payment_id \in {req[q].payment_id, loc[q].existingPayment.transaction_key}

\* A schedule for the entry Cancelled delivery q reversed is pending.
PendingFor(q) ==
    \E s \in schedules : s.paymentId = loc[q].existingPayment.next_schedule_id

\* C20: once a Cancelled delivery has succeeded, its gateway calls (payment
\* lookup and schedule query included) all answered ok, and every delivery for
\* the same key that ran at the same time has been answered, no schedule whose
\* paymentId is the next_schedule_id of the reversed entry is pending at the
\* gateway.
C20_NoScheduleAfterCancel ==
    \A q \in Procs :
        (/\ IsCancelled(q) /\ Succeeded(q)
         /\ AllCallsOk(q)
         /\ Did(q, "querySchedules", "ok")
         /\ \A r \in Procs : (Concurrent(r, q) /\ SameKey(r, q)) => Done(r)) =>
            ~PendingFor(q)

\* What holds instead of C20: a Cancelled delivery that arrived after the Paid
\* delivery of the entry was answered leaves no schedule of the entry pending.
NoScheduleAfterLaterCancel ==
    \A q \in Procs :
        (/\ IsCancelled(q) /\ Succeeded(q)
         /\ AllCallsOk(q)
         /\ Did(q, "querySchedules", "ok")
         /\ loc[q].existingPayment.by \in pre[q]) =>
            ~PendingFor(q)

\* Places of the rows of key k with status st.
Places(k, st) ==
    {i \in 1..Len(ledger) : ledger[i].transaction_key = k /\ ledger[i].status = st}

RECURSIVE SumFrom(_, _)
\* Sum of the amounts of the rows of key k from place i on.
SumFrom(k, i) ==
    IF i > Len(ledger) THEN 0
    ELSE (IF ledger[i].transaction_key = k THEN ledger[i].amount ELSE 0)
         + SumFrom(k, i + 1)

\* C21: the select of the Cancelled flow looks at Paid rows only: whenever the
\* table holds a Paid row of the key it finds the latest one, Cancel rows that
\* reverse it already notwithstanding, and the delivery, when its insert
\* succeeds, appends one more Cancel row reversing that Paid row.
C21_CancelIgnoresCancelRows ==
    \A q \in Procs :
        Selected(q) =>
            LET k    == ResolvedKey(q)
                paid == PaidPlaces(k, loc[q].selectRows)
            IN  /\ Did(q, "select", "ok") <=> paid # {}
                /\ Did(q, "select", "ok") =>
                      /\ loc[q].existingPayment.created_at \in paid
                      /\ \A i \in paid : i <= loc[q].existingPayment.created_at
                /\ Did(q, "insert", "ok") =>
                      \A i \in RowsBy(q) :
                          /\ ledger[i].status = "Cancel"
                          /\ ledger[i].transaction_key = k
                          /\ ledger[i].amount = 0 - loc[q].existingPayment.amount
                          /\ ledger[i].next_schedule_id =
                                loc[q].existingPayment.next_schedule_id

\* C21 witness: the same Cancelled event was delivered twice after one Paid
\* event; both deliveries succeeded, the key has two Cancel rows for one Paid
\* row and the sum of its amounts is negative.
C21_Witness ==
    \E p, q \in Procs :
        /\ p # q /\ req[p] = req[q]
        /\ IsCancelled(p) /\ IsCancelled(q)
        /\ Succeeded(p) /\ Succeeded(q)
        /\ loc[p].existingPayment = loc[q].existingPayment
        /\ Cardinality(Places(ResolvedKey(q), "Cancel")) = 2
        /\ Cardinality(Places(ResolvedKey(q), "Paid")) = 1
        /\ SumFrom(ResolvedKey(q), 1) < 0

\* Places of the Paid rows whose next_schedule_id is n.
PaidRowsOf(n) ==
    {i \in 1..Len(ledger) :
        ledger[i].status = "Paid" /\ ledger[i].next_schedule_id = n}

\* C22: in every reachable state each schedule registered at the gateway, and
\* each schedule a create-schedule call was answered ok for, has as paymentId
\* the next_schedule_id of a Paid row that is in the table, and no two Paid
\* rows have the same next_schedule_id: the schedule belongs to exactly one
\* Paid row.
C22_ScheduleOfOnePaidRow ==
    /\ \A s \in schedules : Cardinality(PaidRowsOf(s.paymentId)) = 1
    /\ \A p \in Procs :
          Did(p, "createSchedule", "ok") =>
              /\ Cardinality(PaidRowsOf(loc[p].created.paymentId)) = 1
              /\ PaidRowsOf(loc[p].created.paymentId) = RowsBy(p)
    /\ \A i, j \in 1..Len(ledger) :
          (/\ i # j
           /\ ledger[i].status = "Paid"
           /\ ledger[j].status = "Paid") =>
              ledger[i].next_schedule_id # ledger[j].next_schedule_id

\* C22 witness: two Paid rows are in the table and the schedule of each is
\* registered at the gateway.
C22_Witness ==
    /\ Cardinality(schedules) = 2
    /\ \E i, j \in 1..Len(ledger) :
          /\ i # j
          /\ ledger[i].status = "Paid" /\ ledger[j].status = "Paid"
          /\ \E s \in schedules : s.paymentId = ledger[i].next_schedule_id
          /\ \E s \in schedules : s.paymentId = ledger[j].next_schedule_id

\* C23: for every Paid row, next_schedule_at is after end_at and not after
\* end_grace_at, whatever the time of day of start_at and the random minute.
C23_NextChargeWithinGrace ==
    \A i \in 1..Len(ledger) :
        ledger[i].status = "Paid" =>
            /\ ParseDate(ledger[i].end_at) < ParseDate(ledger[i].next_schedule_at)
            /\ ParseDate(ledger[i].next_schedule_at) <=
                  ParseDate(ledger[i].end_grace_at)

\* What holds instead of C23: next_schedule_at is after end_at, on the local
\* day of end_grace_at, and it is not after end_grace_at exactly when the
\* local time of day of start_at is 10:mm:00 or later, mm being the minute
\* drawn for the row.
NextChargeWithinGraceIffLateStart ==
    \A i \in 1..Len(ledger) :
        ledger[i].status = "Paid" =>
            LET start == ParseDate(ledger[i].start_at)
                grace == ParseDate(ledger[i].end_grace_at)
                next  == ParseDate(ledger[i].next_schedule_at)
            IN  /\ ParseDate(ledger[i].end_at) < next
                /\ LocalDay(next) = LocalDay(grace)
                /\ next <= grace <=> LocalSecond(start) >= LocalSecond(next)

\* Cancelled delivery q arrived after Paid delivery p for the same payment_id
\* had been answered with success, and the store has performed its select.
CancelledAfterPaid(p, q) ==
    /\ IsPaid(p) /\ Succeeded(p)
    /\ p \in pre[q]
    /\ IsCancelled(q)
    /\ req[q].payment_id = req[p].payment_id
    /\ Selected(q)

\* C24: a Cancelled delivery that arrives after a Paid delivery with the same
\* payment_id has succeeded looks up the key the Paid delivery wrote and finds
\* a Paid row of that key, whatever id and paymentId the payment detail holds.
C24_KeysAgree ==
    \A p, q \in Procs :
        CancelledAfterPaid(p, q) =>
            /\ ResolvedKey(q) = Inserted(p).transaction_key
            /\ Did(q, "select", "ok")
            /\ loc[q].existingPayment.status = "Paid"
            /\ loc[q].existingPayment.transaction_key = Inserted(p).transaction_key

\* What holds instead of C24: the row is found when the detail's paymentId,
\* or its id when it has no paymentId, is absent or is the payment_id of the
\* webhook event.
KeysAgreeWhenDetailEchoes ==
    \A p, q \in Procs :
        (/\ CancelledAfterPaid(p, q)
         /\ loc[q].paymentData.paymentId \in {Absent, req[q].payment_id}
         /\ \/ loc[q].paymentData.paymentId # Absent
            \/ loc[q].paymentData.id \in {Absent, req[q].payment_id}) =>
            /\ ResolvedKey(q) = Inserted(p).transaction_key
            /\ Did(q, "select", "ok")
            /\ loc[q].existingPayment.status = "Paid"
            /\ loc[q].existingPayment.transaction_key = Inserted(p).transaction_key

\* Cancelled delivery q has sent its schedule query.
Queried(q) == IsCancelled(q) /\ Issued(q, "querySchedules")

\* C25: the schedule query of a Cancelled delivery asks for the billingKey of
\* the payment detail and for the window from next_schedule_at - 1 day until
\* next_schedule_at + 1 day of the found entry; the timeToPay of a schedule
\* the Paid flow requested for that entry lies inside the window, and such a
\* schedule, when the query returns items, is among them if it was registered
\* with that billingKey before the delivery arrived and no other delivery has
\* cancelled a schedule.
C25_QueryWindow ==
    \A q \in Procs :
        Queried(q) =>
            LET next == ParseDate(loc[q].existingPayment.next_schedule_at) IN
            /\ loc[q].filter.billingKey = loc[q].paymentData.billingKey
            /\ loc[q].filter.billingKey # Absent
            /\ ParseDate(loc[q].filter.from) = next - Day
            /\ ParseDate(loc[q].filter.until) = next + Day
            /\ \A p \in Procs :
                  (/\ Issued(p, "createSchedule")
                   /\ loc[p].created.paymentId =
                         loc[q].existingPayment.next_schedule_id) =>
                      /\ ParseDate(loc[q].filter.from) <=
                            ParseDate(loc[p].created.timeToPay)
                      /\ ParseDate(loc[p].created.timeToPay) <=
                            ParseDate(loc[q].filter.until)
            /\ \A s \in loc[q].items :
                  /\ s.billingKey = loc[q].filter.billingKey
                  /\ ParseDate(loc[q].filter.from) <= ParseDate(s.timeToPay)
                  /\ ParseDate(s.timeToPay) <= ParseDate(loc[q].filter.until)
            /\ \A p \in Procs :
                  (/\ Did(q, "querySchedules", "ok")
                   /\ Did(p, "createSchedule", "ok")
                   /\ p \in pre[q]
                   /\ loc[p].created.paymentId =
                         loc[q].existingPayment.next_schedule_id
                   /\ loc[p].created.billingKey = loc[q].filter.billingKey
                   /\ \A r \in Procs \ {q} : loc[r].removed = {}) =>
                      \E s \in loc[q].items :
                          s.paymentId = loc[q].existingPayment.next_schedule_id

\* C25 witness: a schedule query returned the schedule the Paid flow created
\* for the found entry.
C25_Witness ==
    \E q \in Procs :
        /\ Queried(q)
        /\ Did(q, "querySchedules", "ok")
        /\ \E s \in loc[q].items :
              /\ s.paymentId = loc[q].existingPayment.next_schedule_id
              /\ s.timeToPay = loc[q].existingPayment.next_schedule_at

\* The last status fetch has completed, by a failed read (it read no clock).
FetchFailed == hook.pc = "settled" /\ hook.now = 0

\* The state of the hook is consistent: a completed fetch has cleared the
\* loading flag; a failed one has set the error and reset the status to Free
\* with no transaction key, a successful one has no error; a subscribed
\* status exposes a transaction key.
HookConsistent ==
    /\ hook.pc = "settled" => ~hook.isLoading
    /\ hook.pc = "select" => hook.isLoading /\ hook.error = Absent
    /\ FetchFailed =>
          /\ hook.error # Absent
          /\ hook.paymentStatus = Free
          /\ hook.paymentStatus.transactionKey = Absent
    /\ (hook.pc = "settled" /\ ~FetchFailed) => hook.error = Absent
    /\ hook.paymentStatus.isSubscribed => hook.paymentStatus.transactionKey \in Keys
    /\ hook.paymentStatus.statusMessage = "subscribed" =>
          hook.paymentStatus.transactionKey \in Keys

\* C26: every run of the status fetch eventually leaves the loading flag
\* false, whether the read returns rows, returns nothing or fails; a failed
\* run sets the error message and resets the status to Free with no
\* transaction key, and a subscribed status always exposes a transaction key.
C26_FetchSettles ==
    /\ (hook.pc = "select") ~> (hook.pc = "settled" /\ ~hook.isLoading)
    /\ []HookConsistent

\* C26 witness: a fetch has failed while the table holds a Paid row in its
\* period; loading is cleared, the error is set and the status is Free.
C26_Witness ==
    /\ FetchFailed
    /\ ~hook.isLoading
    /\ hook.error # Absent
    /\ hook.paymentStatus = Free
    /\ \E i \in 1..Len(ledger) :
          ledger[i].status = "Paid" /\ IsActive(ledger[i], 1 * Day + 20 * 3600 + 15 * 60 + 42)

\* C27: the cancel operation sends its request only after the user has
\* confirmed; it returns true and navigates to the magazine list exactly when
\* the user confirmed and the cancel API answered with success; it returns
\* false and does not navigate when the user declines, when the API reports a
\* failure and when the request throws.
C27_CancelOnlyOnConfirmedSuccess ==
    /\ cancel.sent # Absent =>
          /\ cancel.confirmed
          /\ cancel.sent = cancel.transactionKey
          /\ cancel.sent \in Keys
    /\ cancel.pc = "fetch" =>
          /\ cancel.confirmed /\ cancel.sent # Absent
          /\ cancel.returned = "none" /\ cancel.pushed = Absent
    /\ cancel.pc = "returned" =>
          /\ cancel.returned \in {"true", "false"}
          /\ cancel.returned = "true" <=>
                (cancel.confirmed /\ cancel.answer = "success")
          /\ cancel.pushed = "/magazines" <=> cancel.returned = "true"
          /\ cancel.returned = "false" => cancel.pushed = Absent
          /\ ~cancel.confirmed =>
                /\ cancel.sent = Absent /\ cancel.answer = "none"
                /\ cancel.returned = "false"
          /\ cancel.answer \in {"failure", "nofield", "notjson", "reject"} =>
                cancel.returned = "false"
    /\ cancel.pc = "idle" => cancel = NotCancelling

\* C27 witness: the user confirmed, the API answered with success, and the
\* operation returned true after navigating to the magazine list.
C27_Witness ==
    /\ cancel.pc = "returned"
    /\ cancel.confirmed
    /\ cancel.answer = "success"
    /\ cancel.returned = "true"
    /\ cancel.pushed = "/magazines"

====
